---------------------------- MODULE Spec2Model ----------------------------
(***************************************************************************)
(* Model of the menu recommender backend (the express server with the      *)
(* GET /ingredients and POST /recommend routes).                           *)
(*                                                                         *)
(* Representation:                                                         *)
(*   - a JavaScript string is a sequence of one-character strings,         *)
(*     "Ab" is <<"A", "b">>;                                               *)
(*   - an ingredient id "i<k>" is the number k;                            *)
(*   - the arrays profile.like / dislike / avoid are only read through     *)
(*     Array.prototype.includes, so they are sets of ids;                  *)
(*   - a JSON body is a record whose DOMAIN holds the keys present.        *)
(***************************************************************************)
EXTENDS Integers, Sequences, FiniteSets, TLC

VARIABLES
    ingredients,   \* the catalog parsed from ingredients.json at start-up
    req,           \* the request whose handler ran last, or NoReq
    res,           \* the response that handler produced, or NoRes
    pending,       \* requests accepted by the socket, their handler not run
    prefs,         \* App.jsx: the three preference texts as typed
    stored,        \* App.jsx: the preferences kept in localStorage
    jsxMenuText,   \* App.jsx: the menu text as typed
    jsxResults,    \* App.jsx: the ranking shown
    tsxProfile,    \* App.tsx: profile, the three lists of ingredient ids
    activeBucket,  \* App.tsx: the list that addIngredient appends to
    selectedIds,   \* App.tsx: the useMemo set of the last render
    ingredientQuery,     \* App.tsx: the search field as typed
    ingredientResults,   \* App.tsx: the search results shown
    ingredientLoading,   \* App.tsx: the "Searching" flag
    ingredientError,     \* App.tsx: the search error shown, or NoError
    ingredientNameById,  \* App.tsx: cache of display names
    timer,         \* App.tsx: the pending setTimeout of the search effect
    fetches        \* App.tsx: the requests of the search effect in flight

serverVars == <<ingredients, req, res, pending>>

engineVars == <<prefs, stored, jsxMenuText, jsxResults>>

editorVars ==
    <<tsxProfile, activeBucket, selectedIds, ingredientNameById>>

searchVars ==
    <<ingredientQuery, ingredientResults, ingredientLoading, ingredientError,
      timer, fetches>>

clientVars == <<engineVars, editorVars, searchVars>>

vars == <<serverVars, clientVars>>

---------------------------------------------------------------------------
(* String primitives of the JavaScript runtime.                            *)

UpperCase ==
    <<"A","B","C","D","E","F","G","H","I","J","K","L","M",
      "N","O","P","Q","R","S","T","U","V","W","X","Y","Z">>

LowerCase ==
    <<"a","b","c","d","e","f","g","h","i","j","k","l","m",
      "n","o","p","q","r","s","t","u","v","w","x","y","z">>

toLowerChar(c) ==
    IF \E i \in 1..Len(UpperCase) : UpperCase[i] = c
      THEN LowerCase[CHOOSE i \in 1..Len(UpperCase) : UpperCase[i] = c]
      ELSE c

\* faulty variant: the text is compared as typed
toLowerCaseSkipped(s) == s

\* String.prototype.toLowerCase
toLowerCase(s) == [i \in 1..Len(s) |-> toLowerChar(s[i])]

\* String.prototype.includes: sub occurs in s as a contiguous substring
\* (the empty string occurs in every string).
includes(s, sub) ==
    \E i \in 0..(Len(s) - Len(sub)) : SubSeq(s, i + 1, i + Len(sub)) = sub

\* String.prototype.split("\n")
RECURSIVE split(_)
split(s) ==
    IF \E i \in 1..Len(s) : s[i] = "\n"
      THEN LET i == CHOOSE j \in 1..Len(s) :
                       s[j] = "\n" /\ \A k \in 1..(j - 1) : s[k] # "\n"
           IN  <<SubSeq(s, 1, i - 1)>> \o split(SubSeq(s, i + 1, Len(s)))
      ELSE <<s>>

\* Array.prototype.filter(Boolean) on an array of strings: "" is falsy
IsTruthy(s) == s # <<>>

filterBoolean(lines) == SelectSeq(lines, IsTruthy)

---------------------------------------------------------------------------
(* POST /recommend: scoring of one dish line.                              *)

Sentinel == -999

LikeWeight == 2

DislikeWeight == 1

\* let score = 0; const matchedLiked = [] ...
EmptyMatch ==
    [score |-> 0, matchedLiked |-> <<>>, matchedDisliked |-> <<>>,
     matchedAvoid |-> <<>>]

\* const match = lowerDish.includes(ing.name) ||
\*               ing.aliases.some((a) => lowerDish.includes(a))
match(ing, lowerDish) ==
    \/ includes(lowerDish, ing.name)
    \/ \E k \in 1..Len(ing.aliases) : includes(lowerDish, ing.aliases[k])

\* faulty variant: the dislike branch is tested before the like branch
ClassifyDislikeFirst(acc, ing, profile) ==
    IF ing.id \in profile.avoid
      THEN [acc EXCEPT !.matchedAvoid = Append(@, ing.name),
                       !.score = Sentinel]
    ELSE IF ing.id \in profile.dislike
      THEN [acc EXCEPT !.matchedDisliked = Append(@, ing.name),
                       !.score = @ - DislikeWeight]
    ELSE IF ing.id \in profile.like
      THEN [acc EXCEPT !.matchedLiked = Append(@, ing.name),
                       !.score = @ + LikeWeight]
    ELSE acc

\* faulty variant: a liked match adds 1 (the weight of the client engine)
ClassifyLikeOne(acc, ing, profile) ==
    IF ing.id \in profile.avoid
      THEN [acc EXCEPT !.matchedAvoid = Append(@, ing.name),
                       !.score = Sentinel]
    ELSE IF ing.id \in profile.like
      THEN [acc EXCEPT !.matchedLiked = Append(@, ing.name),
                       !.score = @ + 1]
    ELSE IF ing.id \in profile.dislike
      THEN [acc EXCEPT !.matchedDisliked = Append(@, ing.name),
                       !.score = @ - DislikeWeight]
    ELSE acc

\* The if / else if chain applied to a matching ingredient.
Classify(acc, ing, profile) ==
    IF ing.id \in profile.avoid
      THEN [acc EXCEPT !.matchedAvoid = Append(@, ing.name),
                       !.score = Sentinel]
    ELSE IF ing.id \in profile.like
      THEN [acc EXCEPT !.matchedLiked = Append(@, ing.name),
                       !.score = @ + LikeWeight]
    ELSE IF ing.id \in profile.dislike
      THEN [acc EXCEPT !.matchedDisliked = Append(@, ing.name),
                       !.score = @ - DislikeWeight]
    ELSE acc

\* faulty variant: the chain runs once for the name and once for every
\* alias found in the line
RECURSIVE ClassifyTimes(_, _, _, _)
ClassifyTimes(n, acc, ing, profile) ==
    IF n = 0 THEN acc
    ELSE ClassifyTimes(n - 1, Classify(acc, ing, profile), ing, profile)

VisitEachPattern(acc, ing, lowerDish, profile) ==
    LET found == {k \in 0..Len(ing.aliases) :
                     includes(lowerDish,
                              IF k = 0 THEN ing.name ELSE ing.aliases[k])}
    IN  ClassifyTimes(Cardinality(found), acc, ing, profile)

\* The callback of ingredients.forEach
Visit(acc, ing, lowerDish, profile) ==
    IF ~match(ing, lowerDish) THEN acc ELSE Classify(acc, ing, profile)

\* ingredients.forEach over catalog[lo..hi], in catalog order.  The range
\* is halved instead of peeled, and the left half is finished (the test on
\* left.score, which is always an integer) before the right half starts,
\* so that long catalogs stay within the evaluator's stack; the visits
\* still happen left to right, each on the result of the one before.
RECURSIVE forEach(_, _, _, _, _, _)
forEach(catalog, lo, hi, acc, lowerDish, profile) ==
    IF lo > hi THEN acc
    ELSE IF lo = hi THEN Visit(acc, catalog[lo], lowerDish, profile)
    ELSE LET mid == (lo + hi) \div 2
             left == forEach(catalog, lo, mid, acc, lowerDish, profile)
         IN  IF left.score \in Int
               THEN forEach(catalog, mid + 1, hi, left, lowerDish, profile)
               ELSE left

\* Array.prototype.join(", ") over names[lo..hi]
RECURSIVE joinRange(_, _, _)
joinRange(names, lo, hi) ==
    IF lo > hi THEN <<>>
    ELSE IF lo = hi THEN names[lo]
    ELSE LET mid == (lo + hi) \div 2
         IN  joinRange(names, lo, mid) \o <<",", " ">>
               \o joinRange(names, mid + 1, hi)

join(names) == joinRange(names, 1, Len(names))

\* "Rejected due to avoid ingredients: "
RejectedPrefix ==
    <<"R","e","j","e","c","t","e","d"," ","d","u","e"," ","t","o"," ",
      "a","v","o","i","d"," ","i","n","g","r","e","d","i","e","n","t",
      "s",":"," ">>

\* "Matches liked: "
MatchesPrefix ==
    <<"M","a","t","c","h","e","s"," ","l","i","k","e","d",":"," ">>

none == <<"n","o","n","e">>

\* faulty variant: the fallback || "none" is left out
explanationWithoutNone(m) ==
    IF Len(m.matchedAvoid) > 0
      THEN RejectedPrefix \o join(m.matchedAvoid)
      ELSE MatchesPrefix \o join(m.matchedLiked)

\* faulty variant: the liked names are listed together with the disliked
explanationWithDisliked(m) ==
    IF Len(m.matchedAvoid) > 0
      THEN RejectedPrefix \o join(m.matchedAvoid)
      ELSE MatchesPrefix
             \o (IF join(m.matchedLiked \o m.matchedDisliked) = <<>>
                   THEN none
                   ELSE join(m.matchedLiked \o m.matchedDisliked))

\* explanation: matchedAvoid.length > 0 ? `Rejected ...` : `Matches liked: ...`
\* (the empty string is falsy, so an empty join reads "none")
explanation(m) ==
    IF Len(m.matchedAvoid) > 0
      THEN RejectedPrefix \o join(m.matchedAvoid)
      ELSE MatchesPrefix
             \o (IF join(m.matchedLiked) = <<>> THEN none
                                                ELSE join(m.matchedLiked))

\* The callback of dishes.map
scoreDish(catalog, dish, profile) ==
    LET m == forEach(catalog, 1, Len(catalog), EmptyMatch,
                     toLowerCase(dish), profile)
    IN  [dish |-> dish, score |-> m.score,
         matchedLiked |-> m.matchedLiked,
         matchedDisliked |-> m.matchedDisliked,
         matchedAvoid |-> m.matchedAvoid,
         explanation |-> explanation(m)]

\* const dishes = menuText.split("\n").filter(Boolean)
dishesOf(menuText) == filterBoolean(split(menuText))

mapDishes(catalog, dishes, profile) ==
    [i \in 1..Len(dishes) |-> scoreDish(catalog, dishes[i], profile)]

---------------------------------------------------------------------------
(* results.sort((a, b) => b.score - a.score): Array.prototype.sort is      *)
(* stable, so an element goes after every element that does not compare    *)
(* greater than it.                                                        *)

compare(a, b) == b.score - a.score

\* faulty variant: an element goes before the elements it ties with
RECURSIVE insertBeforeTies(_, _)
insertBeforeTies(sorted, x) ==
    IF sorted = <<>> THEN <<x>>
    ELSE IF compare(Head(sorted), x) < 0
      THEN <<Head(sorted)>> \o insertBeforeTies(Tail(sorted), x)
      ELSE <<x>> \o sorted

RECURSIVE insert(_, _)
insert(sorted, x) ==
    IF sorted = <<>> THEN <<x>>
    ELSE IF compare(Head(sorted), x) <= 0
      THEN <<Head(sorted)>> \o insert(Tail(sorted), x)
      ELSE <<x>> \o sorted

RECURSIVE sort(_)
sort(results) ==
    IF results = <<>> THEN <<>>
    ELSE insert(sort(SubSeq(results, 1, Len(results) - 1)),
                results[Len(results)])

---------------------------------------------------------------------------
(* The handlers.  A request is [route, body] or [route, query]; a key of   *)
(* the body or of the query string that is absent is absent from the       *)
(* record.                                                                 *)

Has(obj, key) == key \in DOMAIN obj

\* const q = (req.query.q || "").toLowerCase()
queryOf(query) == toLowerCase(IF Has(query, "q") THEN query.q ELSE <<>>)

\* (ing) => ing.name.includes(q) || ing.aliases.some((a) => a.includes(q))
found(ing, q) ==
    \/ includes(ing.name, q)
    \/ \E k \in 1..Len(ing.aliases) : includes(ing.aliases[k], q)

\* app.get("/ingredients", ...)
getIngredients(catalog, query) ==
    LET q == queryOf(query)
        hit(ing) == found(ing, q)
    IN  IF q = <<>>
          THEN [status |-> 200, items |-> catalog]
          ELSE [status |-> 200, items |-> SelectSeq(catalog, hit)]

\* !menuText || !profile : a missing key and the empty string are falsy
MissingData(body) ==
    \/ ~Has(body, "menuText")
    \/ body.menuText = <<>>
    \/ ~Has(body, "profile")

\* The if / else if chain reads .includes of a list the profile lacks:
\* profile.avoid is read first, profile.like when the id is not in avoid,
\* profile.dislike when it is in neither.  That read throws a TypeError.
chainThrows(ing, profile) ==
    IF ~Has(profile, "avoid") THEN TRUE
    ELSE IF ing.id \in profile.avoid THEN FALSE
    ELSE IF ~Has(profile, "like") THEN TRUE
    ELSE IF ing.id \in profile.like THEN FALSE
    ELSE ~Has(profile, "dislike")

\* some visit of some dish throws, which ends the handler
handlerThrows(catalog, body) ==
    LET dishes == dishesOf(body.menuText)
    IN  \E i \in 1..Len(dishes) : \E k \in 1..Len(catalog) :
            /\ match(catalog[k], toLowerCase(dishes[i]))
            /\ chainThrows(catalog[k], body.profile)

\* app.post("/recommend", ...); an exception thrown by the handler is
\* answered by the default error handler of express with status 500
recommend(catalog, body) ==
    IF MissingData(body)
      THEN [status |-> 400, error |-> "Missing data"]
    ELSE IF handlerThrows(catalog, body)
      THEN [status |-> 500, error |-> "TypeError"]
      ELSE [status |-> 200,
            results |-> sort(mapDishes(catalog, dishesOf(body.menuText),
                                       body.profile))]

NoReq == [route |-> "none"]

NoRes == [status |-> 0]

---------------------------------------------------------------------------
(* App.jsx: the scoring engine that runs in the browser.                   *)

\* white space removed by String.prototype.trim
IsSpace(c) == c \in {" ", "\n"}

\* String.prototype.trim
trim(s) ==
    IF \A i \in 1..Len(s) : IsSpace(s[i]) THEN <<>>
    ELSE LET first == CHOOSE i \in 1..Len(s) :
                          ~IsSpace(s[i]) /\ \A k \in 1..(i - 1) : IsSpace(s[k])
             last == CHOOSE i \in 1..Len(s) :
                         ~IsSpace(s[i]) /\ \A k \in (i + 1)..Len(s) : IsSpace(s[k])
         IN  SubSeq(s, first, last)

\* String.prototype.split(sep) for a separator of one character
RECURSIVE splitBy(_, _)
splitBy(s, sep) ==
    IF \E i \in 1..Len(s) : s[i] = sep
      THEN LET i == CHOOSE j \in 1..Len(s) :
                       s[j] = sep /\ \A k \in 1..(j - 1) : s[k] # sep
           IN  <<SubSeq(s, 1, i - 1)>> \o splitBy(SubSeq(s, i + 1, Len(s)), sep)
      ELSE <<s>>

\* function parseCommaList(str)
parseCommaList(str) ==
    LET parts == splitBy(str, ",")
    IN  filterBoolean([k \in 1..Len(parts) |-> toLowerCase(trim(parts[k]))])

EmptyPrefs == [likes |-> <<>>, dislikes |-> <<>>, allergies |-> <<>>]

\* the item of localStorage is absent
NoItem == [absent |-> TRUE]

\* function loadPrefs(): a field the stored object lacks reads ""
loadPrefs(raw) ==
    IF raw = NoItem THEN EmptyPrefs
    ELSE [likes |-> IF Has(raw, "likes") THEN raw.likes ELSE <<>>,
          dislikes |-> IF Has(raw, "dislikes") THEN raw.dislikes ELSE <<>>,
          allergies |-> IF Has(raw, "allergies") THEN raw.allergies ELSE <<>>]

AllergyScore == -9999

LikeHitWeight == 1

DislikeHitWeight == -3

\* "Contains allergy: "
AllergyPrefix ==
    <<"C","o","n","t","a","i","n","s"," ","a","l","l","e","r","g","y",
      ":"," ">>

\* "Matched likes: "
LikesPrefix ==
    <<"M","a","t","c","h","e","d"," ","l","i","k","e","s",":"," ">>

\* "Contains dislikes: "
DislikesPrefix ==
    <<"C","o","n","t","a","i","n","s"," ","d","i","s","l","i","k","e",
      "s",":"," ">>

\* "No direct ingredient matches (yet)."
NoMatches ==
    <<"N","o"," ","d","i","r","e","c","t"," ","i","n","g","r","e","d",
      "i","e","n","t"," ","m","a","t","c","h","e","s"," ","(","y","e",
      "t",")",".">>

\* arr.filter((x) => x && t.includes(x))
hitsIn(arr, t) ==
    LET hit(x) == x # <<>> /\ includes(t, x)
    IN  SelectSeq(arr, hit)

\* faulty variant: the line is compared as typed, t = dishText
scoreDishClientAsTyped(dishText, likesArr, dislikesArr, allergiesArr) ==
    LET t == dishText
        allergyHits == hitsIn(allergiesArr, t)
        likeHits == hitsIn(likesArr, t)
        dislikeHits == hitsIn(dislikesArr, t)
    IN  IF Len(allergyHits) > 0
          THEN [score |-> AllergyScore,
                reasons |-> <<AllergyPrefix \o join(allergyHits)>>,
                excluded |-> TRUE]
          ELSE [score |-> Len(likeHits) * LikeHitWeight
                            + Len(dislikeHits) * DislikeHitWeight,
                reasons |->
                    LET r == (IF Len(likeHits) > 0
                                THEN <<LikesPrefix \o join(likeHits)>>
                                ELSE <<>>)
                             \o (IF Len(dislikeHits) > 0
                                   THEN <<DislikesPrefix \o join(dislikeHits)>>
                                   ELSE <<>>)
                    IN  IF r = <<>> THEN <<NoMatches>> ELSE r,
                excluded |-> FALSE]

\* function scoreDish(dishText, likesArr, dislikesArr, allergiesArr) of
\* App.jsx
scoreDishClient(dishText, likesArr, dislikesArr, allergiesArr) ==
    LET t == toLowerCase(dishText)
        allergyHits == hitsIn(allergiesArr, t)
        likeHits == hitsIn(likesArr, t)
        dislikeHits == hitsIn(dislikesArr, t)
    IN  IF Len(allergyHits) > 0
          THEN [score |-> AllergyScore,
                reasons |-> <<AllergyPrefix \o join(allergyHits)>>,
                excluded |-> TRUE]
          ELSE [score |-> Len(likeHits) * LikeHitWeight
                            + Len(dislikeHits) * DislikeHitWeight,
                reasons |->
                    LET r == (IF Len(likeHits) > 0
                                THEN <<LikesPrefix \o join(likeHits)>>
                                ELSE <<>>)
                             \o (IF Len(dislikeHits) > 0
                                   THEN <<DislikesPrefix \o join(dislikeHits)>>
                                   ELSE <<>>)
                    IN  IF r = <<>> THEN <<NoMatches>> ELSE r,
                excluded |-> FALSE]

\* menuText.split("\n").map((l) => l.trim()).filter(Boolean)
linesOf(text) ==
    LET parts == split(text)
    IN  filterBoolean([k \in 1..Len(parts) |-> trim(parts[k])])

\* the value onRecommend passes to setResults
onRecommend(text, likesArr, dislikesArr, allergiesArr) ==
    LET lines == linesOf(text)
        scored == [k \in 1..Len(lines) |->
                     LET r == scoreDishClient(lines[k], likesArr, dislikesArr,
                                              allergiesArr)
                     IN  [dish |-> lines[k], score |-> r.score,
                          reasons |-> r.reasons, excluded |-> r.excluded]]
        kept(x) == ~x.excluded
    IN  sort(SelectSeq(scored, kept))

---------------------------------------------------------------------------
(* App.tsx: the taste-profile editor and its debounced ingredient search.  *)

Buckets == {"like", "dislike", "avoid"}

\* useState<Profile>({ like: [], dislike: [], avoid: [] })
EmptyProfile == [like |-> <<>>, dislike |-> <<>>, avoid |-> <<>>]

\* useState<string | null>(null)
NoError == [message |-> "null"]

NoTimer == [set |-> FALSE]

\* if (q.length < 2)
MinQueryLength == 2

\* ingredientResults.slice(0, 30)
ShownResults == 30

\* the ids of an array of ids
idsOf(list) == {list[k] : k \in 1..Len(list)}

\* faulty variant: the set is built from profile.like alone
selectedOfLikeOnly(profile) == idsOf(profile.like)

\* new Set([...profile.like, ...profile.dislike, ...profile.avoid])
selectedOf(profile) ==
    idsOf(profile.like) \cup idsOf(profile.dislike) \cup idsOf(profile.avoid)

\* faulty variant: the cleanup clears the timer and leaves the request
\* running
cleanupWithoutAbort(inFlight) == inFlight

\* the cleanup of the search effect, ctrl.abort(): the request of the effect
\* that is cleaned up is aborted (the others in flight already are)
cleanup(inFlight) == {[f EXCEPT !.aborted = TRUE] : f \in inFlight}

---------------------------------------------------------------------------
(* Inputs.                                                                 *)

\* longest menu text and query drawn letter by letter
MaxLen == 3

Alphabet == {"a", "B", " ", "\n"}

Texts(n) == UNION {[1..k -> Alphabet] : k \in 0..n}

Ingredient(id, name, aliases) ==
    [id |-> id, name |-> name, aliases |-> aliases]

garlic == <<"g","a","r","l","i","c">>

peanuts == <<"p","e","a","n","u","t","s">>

groundnut == <<"g","r","o","u","n","d","n","u","t">>

GarlicChicken == <<"G","a","r","l","i","c"," ","C","h","i","c","k","e","n">>

PeanutSatay == <<"P","e","a","n","u","t"," ","S","a","t","a","y">>

ScenarioCatalog ==
    <<Ingredient(1, garlic, <<>>), Ingredient(2, peanuts, <<groundnut>>)>>

ScenarioMenu == GarlicChicken \o <<"\n">> \o PeanutSatay

ScenarioProfile == [like |-> {1}, dislike |-> {}, avoid |-> {2}]

\* The catalogs a deployment may load: two plain names; names with aliases
\* that overlap; a name stored with a capital letter; the garlic / peanuts
\* catalog.
Catalogs ==
    { <<Ingredient(1, <<"a">>, <<>>), Ingredient(2, <<"b">>, <<>>)>>,
      <<Ingredient(1, <<"a">>, <<<<"b">>, <<"a", " ">>>>),
        Ingredient(2, <<"b">>, <<<<"a", "b">>>>)>>,
      <<Ingredient(1, <<"a">>, <<>>), Ingredient(2, <<"B">>, <<>>)>>,
      ScenarioCatalog }

Ids == {1, 2}

Profiles == [like : SUBSET Ids, dislike : SUBSET Ids, avoid : SUBSET Ids]

\* menus longer than MaxLen: three lines with a tie between different texts
TieMenu == <<"B", "\n", "a", "\n", "a", " ", "\n", "B", "a">>

Menus == Texts(MaxLen) \cup {ScenarioMenu, TieMenu}

Bodies ==
    [menuText : Menus, profile : Profiles]
      \cup [menuText : {TieMenu}] \cup [profile : {ScenarioProfile}]
      \cup {[other |-> TRUE]}

Queries == [q : Texts(MaxLen)] \cup {[other |-> <<"a">>]}

---------------------------------------------------------------------------
(* The server.                                                             *)

\* the page of App.jsx is not open
EngineClosed ==
    /\ prefs = EmptyPrefs
    /\ stored = EmptyPrefs
    /\ jsxMenuText = <<>>
    /\ jsxResults = <<>>

\* the page of App.tsx is not open, or has just mounted: the useState
\* initial values, no timer, no request
EditorClosed ==
    /\ tsxProfile = EmptyProfile
    /\ activeBucket = "like"
    /\ selectedIds = {}
    /\ ingredientNameById = <<>>
    /\ ingredientQuery = <<>>
    /\ ingredientResults = <<>>
    /\ ingredientLoading = FALSE
    /\ ingredientError = NoError
    /\ timer = NoTimer
    /\ fetches = {}

\* no page of the client is open
ClientsClosed == EngineClosed /\ EditorClosed

Init ==
    /\ ingredients \in Catalogs
    /\ req = NoReq
    /\ res = NoRes
    /\ pending = {}
    /\ ClientsClosed

\* the server takes the next request when it is handling none
Idle == req = NoReq

\* a request to GET /ingredients arrives and its handler runs to completion
GetIngredients ==
    /\ Idle
    /\ \E query \in Queries :
           /\ req' = [route |-> "GET /ingredients", query |-> query]
           /\ res' = getIngredients(ingredients, query)
    /\ UNCHANGED <<ingredients, pending, clientVars>>

\* a request to POST /recommend, with a body of the set bodies, arrives and
\* its handler runs to completion
PostRecommend(bodies) ==
    /\ Idle
    /\ \E body \in bodies :
           /\ req' = [route |-> "POST /recommend", body |-> body]
           /\ res' = recommend(ingredients, body)
    /\ UNCHANGED <<ingredients, pending, clientVars>>

\* the response has been sent; the server waits for the next request
Close ==
    /\ ~Idle
    /\ req' = NoReq
    /\ res' = NoRes
    /\ UNCHANGED <<ingredients, pending, clientVars>>

Next ==
    \/ GetIngredients
    \/ PostRecommend(Bodies)
    \/ Close

Spec == Init /\ [][Next]_vars

---------------------------------------------------------------------------
(* A deployment with a long catalog: one ingredient named "a" followed by  *)
(* LargeN - 1 ingredients that all occur in any line holding a "b".        *)

LargeN == 1001

LargeCatalog ==
    [k \in 1..LargeN |->
        IF k = 1 THEN Ingredient(1, <<"a">>, <<>>)
                 ELSE Ingredient(k, <<"b">>, <<>>)]

LargeProfiles ==
    { [like |-> {}, dislike |-> 2..LargeN, avoid |-> {1}],
      [like |-> 2..LargeN, dislike |-> {}, avoid |-> {1}] }

LargeBodies == [menuText : Texts(MaxLen), profile : LargeProfiles]

InitLarge ==
    /\ ingredients = LargeCatalog
    /\ req = NoReq
    /\ res = NoRes
    /\ pending = {}
    /\ ClientsClosed

NextLarge ==
    \/ GetIngredients
    \/ PostRecommend(LargeBodies)
    \/ Close

SpecLarge == InitLarge /\ [][NextLarge]_vars

---------------------------------------------------------------------------
(* Several clients at once.  The socket accepts requests while others wait; *)
(* the event loop runs one handler at a time, to completion, in any order   *)
(* of the waiting requests (body parsing finishes at different times).      *)

\* most requests waiting at once
MaxPending == 2

ConcurrentRequests ==
    { [route |-> "GET /ingredients", query |-> [q |-> <<"a">>]],
      [route |-> "GET /ingredients", query |-> [q |-> <<"B">>]],
      [route |-> "GET /ingredients", query |-> [other |-> <<"a">>]],
      [route |-> "POST /recommend",
       body |-> [menuText |-> TieMenu,
                 profile |-> [like |-> {2}, dislike |-> {}, avoid |-> {1}]]],
      [route |-> "POST /recommend",
       body |-> [menuText |-> TieMenu,
                 profile |-> [like |-> {1}, dislike |-> {2}, avoid |-> {}]]],
      [route |-> "POST /recommend",
       body |-> [menuText |-> ScenarioMenu, profile |-> ScenarioProfile]],
      [route |-> "POST /recommend", body |-> [menuText |-> TieMenu]] }

\* the router: the handler registered for the route of the request
respond(catalog, r) ==
    IF r.route = "GET /ingredients"
      THEN getIngredients(catalog, r.query)
      ELSE recommend(catalog, r.body)

\* a request arrives while others wait
Arrive ==
    /\ Cardinality(pending) < MaxPending
    /\ \E r \in ConcurrentRequests \ pending : pending' = pending \cup {r}
    /\ UNCHANGED <<ingredients, req, res, clientVars>>

\* faulty variant: the handler walks the catalog with ingredients.reverse(),
\* which reverses in place the catalog shared by all requests
HandleReversingCatalog ==
    \E r \in pending :
        /\ pending' = pending \ {r}
        /\ req' = r
        /\ res' = respond(ingredients, r)
        /\ ingredients' =
              [k \in 1..Len(ingredients) |->
                  ingredients[Len(ingredients) + 1 - k]]
        /\ UNCHANGED clientVars

\* the event loop runs the handler of one waiting request to completion
Handle ==
    \E r \in pending :
        /\ pending' = pending \ {r}
        /\ req' = r
        /\ res' = respond(ingredients, r)
        /\ UNCHANGED <<ingredients, clientVars>>

NextConcurrent ==
    \/ Arrive
    \/ Handle

SpecConcurrent == Init /\ [][NextConcurrent]_vars

---------------------------------------------------------------------------
(* Clients that send bodies the handler does not expect: a profile that    *)
(* lacks one or more of its lists, a body that lacks menuText or profile.  *)

ProfileKeys == {"like", "dislike", "avoid"}

MalformedProfiles ==
    UNION {[keys -> SUBSET Ids] : keys \in (SUBSET ProfileKeys) \ {ProfileKeys}}

MalformedBodies ==
    [menuText : Menus, profile : MalformedProfiles]
      \cup [menuText : Menus] \cup [profile : Profiles]

NextMalformed ==
    \/ GetIngredients
    \/ PostRecommend(MalformedBodies)
    \/ Close

SpecMalformed == Init /\ [][NextMalformed]_vars

---------------------------------------------------------------------------
(* The page of App.jsx: the user edits the preference fields and the menu  *)
(* field and clicks Recommend.                                             *)

\* longest menu text typed letter by letter into the page of App.jsx
MaxMenu == 2

\* three lines that score 0, 1 and -3 with likes "a" and dislikes "B"
RankMenu == <<" ", "x", "\n", "B", " ", "\n", "\n", "a", "x">>

\* two kept lines with the same score around an excluded line
MixedMenu == <<"a", "\n", "B", "x", "\n", " ", "A", " ">>

\* what the menu field can hold after one input event: a letter typed at
\* the end or the last letter deleted (texts up to MaxMenu letters), the
\* field cleared, or one of the two longer menus pasted over it
MenuEdits(text) ==
    (IF Len(text) < MaxMenu THEN {text \o <<c>> : c \in Alphabet} ELSE {})
      \cup (IF Len(text) \in 1..MaxMenu
              THEN {SubSeq(text, 1, Len(text) - 1)} ELSE {})
      \cup {<<>>, RankMenu, MixedMenu}

LikeTexts == {<<>>, <<"a">>}

DislikeTexts == {<<>>, <<"B">>}

AllergyTexts ==
    {<<>>, <<"a">>, <<" ", "B", ",">>, <<",", "x", " ", ",", "A">>}

StoredItems ==
    {NoItem, [likes |-> <<"a">>], [dislikes |-> <<"B">>, allergies |-> <<"a">>]}

\* the three useMemo arrays of the last render
likesArr == parseCommaList(prefs.likes)

dislikesArr == parseCommaList(prefs.dislikes)

allergiesArr == parseCommaList(prefs.allergies)

ServerUnused ==
    /\ ingredients = ScenarioCatalog
    /\ req = NoReq
    /\ res = NoRes
    /\ pending = {}

\* the page has mounted: prefs read by loadPrefs, saved back by the effect
InitEngine ==
    /\ ServerUnused
    /\ \E raw \in StoredItems : prefs = loadPrefs(raw)
    /\ stored = prefs
    /\ jsxMenuText = <<>>
    /\ jsxResults = <<>>
    /\ EditorClosed

\* onChange of the likes field; the effect on [prefs] saves
SetLikes ==
    /\ \E v \in LikeTexts : prefs' = [prefs EXCEPT !.likes = v]
    /\ stored' = prefs'
    /\ UNCHANGED <<serverVars, jsxMenuText, jsxResults, editorVars, searchVars>>

\* onChange of the dislikes field
SetDislikes ==
    /\ \E v \in DislikeTexts : prefs' = [prefs EXCEPT !.dislikes = v]
    /\ stored' = prefs'
    /\ UNCHANGED <<serverVars, jsxMenuText, jsxResults, editorVars, searchVars>>

\* onChange of the allergies field
SetAllergies ==
    /\ \E v \in AllergyTexts : prefs' = [prefs EXCEPT !.allergies = v]
    /\ stored' = prefs'
    /\ UNCHANGED <<serverVars, jsxMenuText, jsxResults, editorVars, searchVars>>

\* onChange of the menu field
SetMenuText ==
    /\ \E v \in MenuEdits(jsxMenuText) : jsxMenuText' = v
    /\ UNCHANGED <<serverVars, prefs, stored, jsxResults, editorVars, searchVars>>

\* onClick of Recommend
OnRecommend ==
    /\ jsxResults' = onRecommend(jsxMenuText, likesArr, dislikesArr,
                                  allergiesArr)
    /\ UNCHANGED <<serverVars, prefs, stored, jsxMenuText, editorVars, searchVars>>

NextEngine ==
    \/ SetLikes
    \/ SetDislikes
    \/ SetAllergies
    \/ SetMenuText
    \/ OnRecommend

SpecEngine == InitEngine /\ [][NextEngine]_vars

---------------------------------------------------------------------------
(* The page of App.tsx.  Every handler below is a discrete event (a click  *)
(* or an input event): React renders at the end of the event and runs the  *)
(* effects of that render before the next task, so the handler, the        *)
(* render and the effect clean-up / effect body are one step.  The         *)
(* continuations of the timer callback run when their promise settles.     *)

\* longest text typed into the search field
MaxQuery == 3

\* most requests of the search effect in flight at once
MaxInFlight == 2

QueryAlphabet == {"a", " "}

AppCatalog ==
    <<Ingredient(1, <<"a", "a">>, <<>>), Ingredient(2, <<"a", "a", "a">>, <<>>)>>

\* what the search field can hold after one input event: a letter typed at
\* the end, the last letter deleted
QueryEdits(text) ==
    (IF Len(text) < MaxQuery THEN {text \o <<c>> : c \in QueryAlphabet} ELSE {})
      \cup (IF Len(text) > 0 THEN {SubSeq(text, 1, Len(text) - 1)} ELSE {})

\* a text pasted into the search field, or the field cleared
PastedQueries == {<<>>, <<"a", "a">>}

\* e.message of a response that is not ok, and of a failed fetch
FailureMessages == {"Ingredients request failed (500)", "Failed to fetch"}

InitApp ==
    /\ ingredients = AppCatalog
    /\ req = NoReq
    /\ res = NoRes
    /\ pending = {}
    /\ EngineClosed
    /\ EditorClosed

\* onClick of a bucket button
SetActiveBucket ==
    /\ \E b \in Buckets \ {activeBucket} : activeBucket' = b
    /\ UNCHANGED <<serverVars, engineVars, searchVars, tsxProfile, selectedIds,
                   ingredientNameById>>

\* onChange of the search field with a value of the set values; the effect
\* on [ingredientQuery] is cleaned up and runs again
SetIngredientQuery(values) ==
    /\ \E v \in values \ {ingredientQuery} :
           /\ ingredientQuery' = v
           /\ fetches' = cleanup(fetches)
           /\ ingredientError' = NoError
           /\ IF Len(trim(v)) < MinQueryLength
                 THEN /\ ingredientResults' = <<>>
                      /\ timer' = NoTimer
                 ELSE /\ timer' = [set |-> TRUE, raw |-> v, q |-> trim(v)]
                      /\ UNCHANGED ingredientResults
    /\ UNCHANGED <<serverVars, engineVars, editorVars, ingredientLoading>>

\* the 250 ms have passed: setIngredientLoading(true) and the request leaves
TimerFires ==
    /\ timer # NoTimer
    /\ Cardinality(fetches) < MaxInFlight
    /\ ingredientLoading' = TRUE
    /\ fetches' = fetches \cup {[raw |-> timer.raw, q |-> timer.q,
                                  aborted |-> FALSE]}
    /\ timer' = NoTimer
    /\ UNCHANGED <<serverVars, engineVars, editorVars, ingredientQuery,
                   ingredientResults, ingredientError>>

\* the response is ok and its body has been read: the items GET /ingredients
\* gives for q are shown; finally setIngredientLoading(false)
ResponseShown ==
    /\ \E f \in fetches :
           /\ ~f.aborted
           /\ ingredientResults' =
                  getIngredients(ingredients, [q |-> f.q]).items
           /\ fetches' = fetches \ {f}
    /\ ingredientLoading' = FALSE
    /\ UNCHANGED <<serverVars, engineVars, editorVars, ingredientQuery,
                   ingredientError, timer>>

\* the response is not ok, or the fetch failed: the catch block shows the
\* message and empties the results
RequestFails ==
    /\ \E f \in fetches :
           /\ ~f.aborted
           /\ fetches' = fetches \ {f}
    /\ \E m \in FailureMessages : ingredientError' = [message |-> m]
    /\ ingredientResults' = <<>>
    /\ ingredientLoading' = FALSE
    /\ UNCHANGED <<serverVars, engineVars, editorVars, ingredientQuery, timer>>

\* an aborted request rejects with AbortError: the catch block returns;
\* finally setIngredientLoading(false)
RequestAborted ==
    /\ \E f \in fetches :
           /\ f.aborted
           /\ fetches' = fetches \ {f}
    /\ ingredientLoading' = FALSE
    /\ UNCHANGED <<serverVars, engineVars, editorVars, ingredientQuery,
                   ingredientResults, ingredientError, timer>>

\* addIngredient(ing) for the k-th result shown
addIngredient(k) ==
    LET ing == ingredientResults[k]
    IN  IF ing.id \in selectedIds
          THEN UNCHANGED <<editorVars, searchVars>>
          ELSE /\ ingredientNameById' = (ing.id :> ing.name) @@ ingredientNameById
               /\ tsxProfile' =
                     [tsxProfile EXCEPT ![activeBucket] = Append(@, ing.id)]
               /\ selectedIds' = selectedOf(tsxProfile')
               /\ ingredientQuery' = <<>>
               /\ ingredientResults' = <<>>
               /\ IF ingredientQuery # <<>>
                     THEN /\ fetches' = cleanup(fetches)
                          /\ ingredientError' = NoError
                          /\ timer' = NoTimer
                     ELSE UNCHANGED <<fetches, ingredientError, timer>>
               /\ UNCHANGED <<activeBucket, ingredientLoading>>

\* onClick of a result
AddIngredient ==
    /\ \E k \in 1..Len(ingredientResults) :
           k <= ShownResults /\ addIngredient(k)
    /\ UNCHANGED <<serverVars, engineVars>>

\* removeIngredient(bucket, id)
removeIngredient(bucket, id) ==
    /\ tsxProfile' =
          [tsxProfile EXCEPT
              ![bucket] = LET keep(x) == x # id IN SelectSeq(@, keep)]
    /\ selectedIds' = selectedOf(tsxProfile')
    /\ UNCHANGED <<activeBucket, ingredientNameById>>

\* onRemove of a chip
RemoveIngredient ==
    /\ \E b \in Buckets : \E k \in 1..Len(tsxProfile[b]) :
           removeIngredient(b, tsxProfile[b][k])
    /\ UNCHANGED <<serverVars, engineVars, searchVars>>

\* the user edits the profile and searches by pasting
NextEditor ==
    \/ SetActiveBucket
    \/ SetIngredientQuery(PastedQueries)
    \/ TimerFires
    \/ ResponseShown
    \/ RequestFails
    \/ RequestAborted
    \/ AddIngredient
    \/ RemoveIngredient

SpecEditor == InitApp /\ [][NextEditor]_vars

\* the user types into the search field and adds results to the liked list
NextSearch ==
    \/ SetIngredientQuery(QueryEdits(ingredientQuery))
    \/ TimerFires
    \/ ResponseShown
    \/ RequestFails
    \/ RequestAborted
    \/ AddIngredient

SpecSearch == InitApp /\ [][NextSearch]_vars

---------------------------------------------------------------------------
(* Properties.                                                             *)

\* a 200 response of POST /recommend is in res
Ranked == req.route = "POST /recommend" /\ res.status = 200

Results == res.results

\* String.prototype.trim leaves something: the line has a non-blank character
NonBlank(line) == \E i \in 1..Len(line) : line[i] # " "

\* names of the catalog entries, in catalog order, that match the lowered
\* line and whose id is in idSet
MatchedIn(lowerDish, idSet) ==
    LET hit(ing) == match(ing, lowerDish) /\ ing.id \in idSet
        hits == SelectSeq(ingredients, hit)
    IN  [k \in 1..Len(hits) |-> hits[k].name]

\* C1: every dish line with at least one matched avoid ingredient has score
\* exactly the sentinel -999, whatever else matches the line.
C1_AvoidForcesSentinel ==
    Ranked =>
        \A i \in 1..Len(Results) :
            Results[i].matchedAvoid # <<>> => Results[i].score = Sentinel

ScenarioHandled ==
    /\ ingredients = ScenarioCatalog
    /\ req = [route |-> "POST /recommend",
              body |-> [menuText |-> ScenarioMenu,
                        profile |-> ScenarioProfile]]

ScenarioFirst ==
    /\ Len(Results) = 2
    /\ Results[1].dish = GarlicChicken
    /\ Results[1].score = 2
    /\ Results[1].matchedLiked = <<garlic>>
    /\ Results[2].dish = PeanutSatay

\* C2 (as claimed): in the garlic / peanuts scenario Garlic Chicken scores 2
\* with matchedLiked = [garlic], Peanut Satay gets the sentinel with
\* matchedAvoid = [peanuts], and Garlic Chicken is ranked first.
C2_ScenarioAsClaimed ==
    ScenarioHandled =>
        /\ ScenarioFirst
        /\ Results[2].score = Sentinel
        /\ Results[2].matchedAvoid = <<peanuts>>

\* C2 (amended): in the garlic / peanuts scenario Garlic Chicken scores 2
\* with matchedLiked = [garlic] and is ranked first; Peanut Satay matches
\* nothing ("peanuts" and "groundnut" are not substrings of "peanut satay"),
\* so its score is 0 and its matchedAvoid is empty.
C2_Scenario ==
    ScenarioHandled =>
        /\ ScenarioFirst
        /\ Results[2].score = 0
        /\ Results[2].matchedAvoid = <<>>
        /\ Results[2].matchedLiked = <<>>
        /\ Results[2].matchedDisliked = <<>>

C2_Witness == ScenarioHandled /\ Ranked

\* C3: the results have exactly as many entries as menuText has lines that
\* are non-empty after trimming.
C3_OneEntryPerTrimmedLine ==
    Ranked =>
        Len(Results) = Len(SelectSeq(split(req.body.menuText), NonBlank))

\* the subsequence of the entries of seq whose score is s
WithScore(seq, s) ==
    LET is(r) == r.score = s IN SelectSeq(seq, is)

\* the entries before sorting, in menu order
Unsorted == mapDishes(ingredients, dishesOf(req.body.menuText), req.body.profile)

\* C4: the results are ordered by score descending, and the dishes of equal
\* score keep the relative order of their lines in menuText.
C4_SortedStable ==
    Ranked =>
        /\ \A i, j \in 1..Len(Results) :
               i < j => Results[i].score >= Results[j].score
        /\ \A i \in 1..Len(Results) :
               WithScore(Results, Results[i].score)
                   = WithScore(Unsorted, Results[i].score)
        /\ Len(Results) = Len(Unsorted)

\* a tie between two different lines next to a line of another score, with
\* the sort having moved a line
C4_Witness ==
    /\ Ranked
    /\ Results # Unsorted
    /\ \E i, j, k \in 1..Len(Results) :
           /\ i < j
           /\ Results[i].score = Results[j].score
           /\ Results[i].dish # Results[j].dish
           /\ Results[k].score # Results[i].score

\* C5: no line is dropped because of an avoid match, and every dish with an
\* avoid match is ranked after every dish without one.
C5_AvoidRankedLast ==
    Ranked =>
        /\ Len(Results) = Len(dishesOf(req.body.menuText))
        /\ \A i, j \in 1..Len(Results) :
               (/\ Results[i].matchedAvoid # <<>>
                /\ Results[j].matchedAvoid = <<>>) => j < i

\* C6: a matched ingredient is recorded by the precedence avoid > like >
\* dislike, in exactly one of the three lists: matchedAvoid holds the
\* matched ingredients in avoid, matchedLiked those in like and not in
\* avoid, matchedDisliked those in dislike and in neither of the others.
C6_Precedence ==
    Ranked =>
        \A i \in 1..Len(Results) :
            LET l == toLowerCase(Results[i].dish)
                p == req.body.profile
            IN  /\ Results[i].matchedAvoid = MatchedIn(l, p.avoid)
                /\ Results[i].matchedLiked = MatchedIn(l, p.like \ p.avoid)
                /\ Results[i].matchedDisliked
                       = MatchedIn(l, p.dislike \ (p.avoid \cup p.like))

\* one line matches an id that is in avoid and like, and an id that is in
\* like and dislike only
C6_Witness ==
    /\ Ranked
    /\ \E i \in 1..Len(Results) :
           LET l == toLowerCase(Results[i].dish)
               p == req.body.profile
           IN  /\ MatchedIn(l, p.avoid \cap p.like) # <<>>
               /\ MatchedIn(l, (p.like \cap p.dislike) \ p.avoid) # <<>>

\* C7: an id in both like and dislike (and not in avoid) is treated as
\* disliked: dislike takes precedence over like.
C7_DislikeBeforeLike ==
    Ranked =>
        \A i \in 1..Len(Results) :
            LET l == toLowerCase(Results[i].dish)
                p == req.body.profile
            IN  /\ Results[i].matchedDisliked
                       = MatchedIn(l, p.dislike \ p.avoid)
                /\ Results[i].matchedLiked
                       = MatchedIn(l, p.like \ (p.avoid \cup p.dislike))

\* C8: without an avoid match the score is 2 * |matchedLiked| -
\* |matchedDisliked|; a profile with empty buckets gives every dish 0.
C8_ScoreFormula ==
    Ranked =>
        \A i \in 1..Len(Results) :
            /\ Results[i].matchedAvoid = <<>> =>
                   Results[i].score = 2 * Len(Results[i].matchedLiked)
                                        - Len(Results[i].matchedDisliked)
            /\ (/\ req.body.profile.like = {}
                /\ req.body.profile.dislike = {}
                /\ req.body.profile.avoid = {}) => Results[i].score = 0

C8_Witness ==
    /\ Ranked
    /\ \E i \in 1..Len(Results) :
           /\ Results[i].matchedAvoid = <<>>
           /\ Results[i].matchedLiked # <<>>
           /\ Results[i].matchedDisliked # <<>>

\* how often name occurs in seq
Count(seq, name) == Cardinality({k \in 1..Len(seq) : seq[k] = name})

\* the catalog entries that match the lowered line
MatchingEntries(lowerDish) ==
    {k \in 1..Len(ingredients) : match(ingredients[k], lowerDish)}

\* how many patterns (name, aliases) of ing occur in the lowered line,
\* counting every position
Occurrences(ing, lowerDish) ==
    LET at(pat) == {i \in 0..(Len(lowerDish) - Len(pat)) :
                       SubSeq(lowerDish, i + 1, i + Len(pat)) = pat}
    IN  Cardinality(at(ing.name))
          + Cardinality({<<k, i>> \in (1..Len(ing.aliases)) \X (0..Len(lowerDish)) :
                            i \in at(ing.aliases[k])})

\* C9: a catalog ingredient contributes to the matched lists and to the
\* score of a line at most once, however often its name and aliases occur.
C9_AtMostOnce ==
    Ranked =>
        \A i \in 1..Len(Results) :
            LET r == Results[i]
                l == toLowerCase(r.dish)
                all == r.matchedLiked \o r.matchedDisliked \o r.matchedAvoid
            IN  /\ \A k \in 1..Len(all) :
                       Count(all, all[k])
                         <= Cardinality({e \in MatchingEntries(l) :
                                            ingredients[e].name = all[k]})
                /\ r.matchedAvoid = <<>> =>
                       /\ r.score <= LikeWeight
                              * Cardinality({e \in MatchingEntries(l) :
                                    ingredients[e].id \in req.body.profile.like})
                       /\ r.score >= 0 - DislikeWeight
                              * Cardinality({e \in MatchingEntries(l) :
                                    ingredients[e].id \in req.body.profile.dislike})

\* a line in which an ingredient of some bucket occurs more than once
C9_Witness ==
    /\ Ranked
    /\ \E i \in 1..Len(Results) :
           LET r == Results[i]
               l == toLowerCase(r.dish)
           IN  /\ Len(r.matchedLiked) + Len(r.matchedDisliked)
                     + Len(r.matchedAvoid) > 0
               /\ \E e \in MatchingEntries(l) :
                      /\ Occurrences(ingredients[e], l) > 1
                      /\ ingredients[e].id \in
                             req.body.profile.like \cup req.body.profile.dislike
                               \cup req.body.profile.avoid

\* name or an alias of ing occurs in the line, letter case ignored on both
\* sides
OccursIgnoringCase(ing, dish) ==
    \/ includes(toLowerCase(dish), toLowerCase(ing.name))
    \/ \E k \in 1..Len(ing.aliases) :
           includes(toLowerCase(dish), toLowerCase(ing.aliases[k]))

\* C10: a catalog ingredient is matched in a line exactly when its name or
\* one of its aliases occurs in the line ignoring letter case on both
\* sides.  A match shows in the response through the buckets: matchedAvoid
\* holds exactly the ingredients of the avoid bucket that occur so, and the
\* three lists together hold one name for each ingredient of some bucket
\* that occurs so.
C10_CaseInsensitive ==
    Ranked =>
        \A i \in 1..Len(Results) :
            LET r == Results[i]
                p == req.body.profile
                hit(ing) == /\ OccursIgnoringCase(ing, r.dish)
                            /\ ing.id \in p.avoid
                hits == SelectSeq(ingredients, hit)
                any(ing) == /\ OccursIgnoringCase(ing, r.dish)
                            /\ ing.id \in p.avoid \cup p.like \cup p.dislike
            IN  /\ r.matchedAvoid = [k \in 1..Len(hits) |-> hits[k].name]
                /\ Len(r.matchedAvoid) + Len(r.matchedLiked)
                       + Len(r.matchedDisliked)
                     = Len(SelectSeq(ingredients, any))


\* some catalog entry matches the line
Resolved(dish) ==
    \E k \in 1..Len(ingredients) : match(ingredients[k], toLowerCase(dish))

\* C11: a dish line in which no catalog ingredient is matched has score 0,
\* empty matchedLiked, matchedDisliked and matchedAvoid, and the explanation
\* "Matches liked: none".
C11_NoMatchZero ==
    Ranked =>
        \A i \in 1..Len(Results) :
            ~Resolved(Results[i].dish) =>
                /\ Results[i].score = 0
                /\ Results[i].matchedLiked = <<>>
                /\ Results[i].matchedDisliked = <<>>
                /\ Results[i].matchedAvoid = <<>>
                /\ Results[i].explanation = MatchesPrefix \o none

\* a response with a line that no ingredient matches next to a line that a
\* liked ingredient matches
C11_Witness ==
    /\ Ranked
    /\ \E i \in 1..Len(Results) : ~Resolved(Results[i].dish)
    /\ \E i \in 1..Len(Results) : Results[i].matchedLiked # <<>>

\* the three lists of the profile are present
WellFormed(profile) == ProfileKeys \subseteq DOMAIN profile

\* C12: POST /recommend with menuText equal to the empty string and a
\* well-formed profile answers with an empty result sequence and not with
\* an error.
C12_EmptyMenuEmptyResults ==
    ( /\ req.route = "POST /recommend"
      /\ Has(req.body, "menuText")
      /\ Has(req.body, "profile")
      /\ req.body.menuText = <<>>
      /\ WellFormed(req.body.profile) )
    => ( /\ res.status = 200
         /\ res.results = <<>> )

\* menuText or profile is missing, or the profile lacks one of its lists
Malformed(body) ==
    \/ ~Has(body, "menuText")
    \/ ~Has(body, "profile")
    \/ ~WellFormed(body.profile)

\* C13: a request whose menuText or profile is missing or malformed is
\* answered with status 400 and an error body without results; it is never
\* answered as if a default had been supplied, nor with another failure.
C13_MalformedRejected ==
    (req.route = "POST /recommend" /\ Malformed(req.body))
    => ( /\ res.status = 400
         /\ Has(res, "error")
         /\ ~Has(res, "results") )

\* name or an alias of ing contains q, letter case ignored on both sides
ContainsIgnoringCase(ing, q) ==
    \/ includes(toLowerCase(ing.name), toLowerCase(q))
    \/ \E k \in 1..Len(ing.aliases) :
           includes(toLowerCase(ing.aliases[k]), toLowerCase(q))

\* C14: GET /ingredients answers with exactly the catalog ingredients whose
\* name or one of whose aliases contains the query ignoring letter case, in
\* catalog order, and with the whole catalog when the query is empty or
\* absent.
C14_SearchIgnoresCase ==
    req.route = "GET /ingredients" =>
        /\ res.status = 200
        /\ res.items =
              IF ~Has(req.query, "q") \/ req.query.q = <<>>
                THEN ingredients
                ELSE LET hit(ing) == ContainsIgnoringCase(ing, req.query.q)
                     IN  SelectSeq(ingredients, hit)

\* the names of a list written one after the other, separated by ", "
RECURSIVE CommaSeparated(_)
CommaSeparated(names) ==
    IF names = <<>> THEN <<>>
    ELSE IF Len(names) = 1 THEN names[1]
    ELSE names[1] \o <<",", " ">> \o CommaSeparated(Tail(names))

\* C16: the explanation of a result is determined by its matched lists: with
\* a non-empty matchedAvoid it states the rejection and lists exactly the
\* matched avoid names; otherwise it lists exactly the matched liked names,
\* or "none" when matchedLiked is empty.  Disliked names never appear.
C16_ExplanationFromLists ==
    Ranked =>
        \A i \in 1..Len(Results) :
            LET r == Results[i]
            IN  r.explanation =
                  IF r.matchedAvoid # <<>>
                    THEN RejectedPrefix \o CommaSeparated(r.matchedAvoid)
                  ELSE IF r.matchedLiked # <<>>
                    THEN MatchesPrefix \o CommaSeparated(r.matchedLiked)
                    ELSE MatchesPrefix \o none

\* one response with a rejected line in which a liked ingredient matched as
\* well, and a line that is not rejected and has a liked match
C16_Witness ==
    /\ Ranked
    /\ \E i \in 1..Len(Results) :
           /\ Results[i].matchedAvoid # <<>>
           /\ Results[i].matchedLiked # <<>>
    /\ \E i \in 1..Len(Results) :
           /\ Results[i].matchedAvoid = <<>>
           /\ Results[i].matchedLiked # <<>>

\* the set of the names of a list
Names(list) == {list[k] : k \in 1..Len(list)}

\* the catalog in every order of its entries
Reordered(catalog) ==
    {[k \in 1..Len(catalog) |-> catalog[f[k]]] :
        f \in Permutations(1..Len(catalog))}

\* C18: the score of a result and the sets of names in its matched lists
\* are the same for every order of the catalog entries.
C18_CatalogOrderIrrelevant ==
    Ranked =>
        \A i \in 1..Len(Results) :
            \A other \in Reordered(ingredients) :
                LET r == Results[i]
                    o == scoreDish(other, r.dish, req.body.profile)
                IN  /\ o.score = r.score
                    /\ Names(o.matchedLiked) = Names(r.matchedLiked)
                    /\ Names(o.matchedDisliked) = Names(r.matchedDisliked)
                    /\ Names(o.matchedAvoid) = Names(r.matchedAvoid)

ContainsEntry(line, entries) ==
    \E k \in 1..Len(entries) :
        includes(toLowerCase(line), toLowerCase(entries[k]))

\* the non-empty trimmed lines of the menu that contain no entry of the
\* parsed allergies list
AllowedLines ==
    LET free(line) == ~ContainsEntry(line, parseCommaList(prefs.allergies))
    IN  SelectSeq(linesOf(jsxMenuText), free)

\* the dishes of shown are the lines of allowed, each as often, in some order
SameLines(shown, allowed) ==
    /\ Len(shown) = Len(allowed)
    /\ \E f \in Permutations(1..Len(allowed)) :
           \A k \in 1..Len(allowed) : shown[k].dish = allowed[f[k]]

\* C17: the results that a click on Recommend sets are exactly the non-empty
\* trimmed menu lines that contain no entry of the parsed allergies list as
\* a case-insensitive substring, ordered by score descending.
C17_AllergyLinesExcluded ==
    [][ OnRecommend =>
          /\ SameLines(jsxResults', AllowedLines)
          /\ \A k \in 1..(Len(jsxResults') - 1) :
                 jsxResults'[k].score >= jsxResults'[k + 1].score ]_vars

\* Recommend has ranked the menu on the page: a line with an allergy entry
\* typed in another letter case was left out, and the lines kept were
\* reordered by score
C17_Witness ==
    /\ jsxResults = onRecommend(jsxMenuText, likesArr, dislikesArr, allergiesArr)
    /\ Len(jsxResults) > 1
    /\ Len(jsxResults) < Len(linesOf(jsxMenuText))
    /\ \E k \in 1..Len(allergiesArr) :
           /\ includes(toLowerCase(jsxMenuText), allergiesArr[k])
           /\ ~includes(jsxMenuText, allergiesArr[k])
    /\ jsxResults[1].dish # AllowedLines[1]

\* how often id occurs in the three lists of the profile together
TimesSelected(id) ==
    LET is(x) == x = id
    IN  Len(SelectSeq(tsxProfile.like, is))
          + Len(SelectSeq(tsxProfile.dislike, is))
          + Len(SelectSeq(tsxProfile.avoid, is))

\* no id is in two lists of the profile, or twice in one
BucketsDisjoint ==
    \A id \in idsOf(tsxProfile.like) \cup idsOf(tsxProfile.dislike)
                \cup idsOf(tsxProfile.avoid) : TimesSelected(id) = 1

\* C19: from the empty profile, after any sequence of setActiveBucket,
\* addIngredient and removeIngredient no ingredient id is in more than one
\* of the lists like / dislike / avoid nor more than once in a list, and
\* removeIngredient(bucket, id) changes only the list it names.
C19_BucketsStayDisjoint ==
    /\ []BucketsDisjoint
    /\ [][ \A b \in Buckets : \A id \in idsOf(tsxProfile[b]) :
              removeIngredient(b, id) =>
                  \A o \in Buckets \ {b} : tsxProfile'[o] = tsxProfile[o] ]_vars

\* two ingredients sit in two different lists, a third list is active and
\* the search shows a result that is already selected
C19_Witness ==
    /\ tsxProfile.like # <<>>
    /\ tsxProfile.avoid # <<>>
    /\ activeBucket = "dislike"
    /\ \E k \in 1..Len(ingredientResults) :
           ingredientResults[k].id \in selectedIds

\* a query shorter than two letters after trimming: nothing is shown, no
\* timer is set and no request of it is in flight
ShortQueryIdle ==
    /\ Len(trim(ingredientQuery)) < MinQueryLength =>
           /\ ingredientResults = <<>>
           /\ timer = NoTimer
           /\ \A f \in fetches : f.aborted
    /\ \A f \in fetches : Len(f.q) >= MinQueryLength
    /\ timer # NoTimer => Len(timer.q) >= MinQueryLength

\* C20: a stale response is never displayed.  Whenever the continuation of
\* a request writes ingredientResults or ingredientError, the request was
\* issued for the value ingredientQuery has at that moment; and a query
\* whose trimmed length is below 2 issues no request and leaves
\* ingredientResults empty.
C20_NoStaleResponse ==
    /\ []ShortQueryIdle
    /\ [][ (ResponseShown \/ RequestFails) =>
              \A f \in fetches :
                  f \notin fetches' => f.raw = ingredientQuery ]_vars

\* the request of an earlier query is still in flight, aborted, while the
\* results of the request for the present query are shown
C20_Witness ==
    /\ \E f \in fetches : f.aborted /\ f.raw # ingredientQuery
    /\ ingredientResults # <<>>
    /\ ingredientResults =
          getIngredients(ingredients, [q |-> trim(ingredientQuery)]).items
    /\ timer = NoTimer

=============================================================================
